---- MODULE Spec2Model ----
(***************************************************************************)
(* Model of github.com/thediveo/faf: the Bytestring scanner with its       *)
(* unsigned integer parsers, ParseUint, the RawDirEntry64 record view and  *)
(* the ReadDir iterator with its pooled getdents64 buffer, and ReadFile.   *)
(*                                                                         *)
(* 64 bit unsigned integers are sequences of four 16 bit limbs, least      *)
(* significant limb first, so that Go's wrap-around arithmetic is kept     *)
(* bit for bit.  Byte slices are sequences of 0..255; a Go index k is the   *)
(* TLA+ index k+1.                                                         *)
(***************************************************************************)
EXTENDS Integers, Sequences, FiniteSets, TLC

\* the Bytestring scanner: its slice, its cursor, the last call's result, and
\* how the text was made
VARIABLES sb, spos, sret, sorigin

\* the ReadDir iterations: control position, directory read, kernel offset in it,
\* descriptor, pooled buffer, scan position, fill level, entry handed to the
\* consumer
VARIABLES pc, dir, dirpos, fd, rb, pos, avail, cur

\* process-wide state: buffer contents, idle buffers of the pool, open descriptors
VARIABLES bufs, nbufs, pool, openFds

\* history: entries yielded by the current invocation, why it ended, whether it
\* panicked, deferred Put and Close calls run, invocations made, the last record
\* decoded, the bytes of the last kernel read, why the invocation before the
\* current one ended
VARIABLES yielded, exit, panicked, puts, closes, runs, last, wrote, prev

\* the call of ReadFile: control position, file, supplied and current buffer,
\* backing array contents, file offset, results
VARIABLES rf

\* a RawDirEntry64 and the last call on it with its results
VARIABLES de

scanvars == <<sb, spos, sret, sorigin>>

dirvars == <<pc, dir, dirpos, fd, rb, pos, avail, cur, bufs, nbufs, pool, openFds,
             yielded, exit, panicked, puts, closes, runs, last, wrote, prev>>

vars == <<scanvars, dirvars, rf, de>>

(***************************************************************************)
(* uint64 arithmetic on limbs                                              *)
(***************************************************************************)
LimbBase == 256 * 256

RECURSIVE MulAddLimbs(_, _, _)
\* x*m + a on the limbs of x; the carry out of the top limb is dropped, which
\* is Go's wrap-around modulo 2^(16*Len(x)).
MulAddLimbs(x, m, a) ==
    IF x = <<>> THEN <<>>
    ELSE LET t == Head(x) * m + a
         IN  <<t % LimbBase>> \o MulAddLimbs(Tail(x), m, t \div LimbBase)

RECURSIVE CmpLimbs(_, _)
\* -1, 0 or 1 as x is below, equal to or above y (same number of limbs)
CmpLimbs(x, y) ==
    IF x = <<>> THEN 0
    ELSE LET n == Len(x)
         IN  IF x[n] < y[n] THEN -1
             ELSE IF x[n] > y[n] THEN 1
             ELSE CmpLimbs(SubSeq(x, 1, n - 1), SubSeq(y, 1, n - 1))

RECURSIVE DivModLimbs(_, _)
\* quotient and remainder of x by the small divisor d
DivModLimbs(x, d) ==
    IF x = <<>> THEN [q |-> <<>>, r |-> 0]
    ELSE LET hi == DivModLimbs(Tail(x), d)
             t  == hi.r * LimbBase + Head(x)
         IN  [q |-> <<t \div d>> \o hi.q, r |-> t % d]

ZeroU64 == <<0, 0, 0, 0>>

\* 1<<64 - 1
MaxU64 == <<65535, 65535, 65535, 65535>>

RECURSIVE AddLimbs(_, _, _)
\* x + y + carry, wrapping around
AddLimbs(x, y, c) ==
    IF x = <<>> THEN <<>>
    ELSE LET t == Head(x) + Head(y) + c
         IN  <<t % LimbBase>> \o AddLimbs(Tail(x), Tail(y), t \div LimbBase)

RECURSIVE SubLimbs(_, _, _)
\* x - y - borrow, wrapping around
SubLimbs(x, y, bw) ==
    IF x = <<>> THEN <<>>
    ELSE LET t == Head(x) - Head(y) - bw
         IN  <<t % LimbBase>> \o SubLimbs(Tail(x), Tail(y), IF t < 0 THEN 1 ELSE 0)

\* uint64(n) of a non-negative int below 2^31
U64(n) == <<n % LimbBase, n \div LimbBase, 0, 0>>

\* int(x) of a uint64 whose value is below 2^31
IntOf(x) == x[1] + LimbBase * x[2]

(***************************************************************************)
(* Bytestring (bytestring.go)                                              *)
(***************************************************************************)
\* (1<<64-1)/10 + 1
cutoffDecimalUint64 == MulAddLimbs(DivModLimbs(MaxU64, 10).q, 1, 1)

\* 1 << 60: bit 12 of the top limb
cutoffHexUint64 == <<0, 0, 0, 4096>>

EOL(b, p) == p >= Len(b)

RECURSIVE SkipSpace(_, _)
\* the cursor after SkipSpace; its result is EOL at that cursor
SkipSpace(b, p) ==
    IF p >= Len(b) THEN p
    ELSE IF b[p + 1] # 32 THEN p
    ELSE SkipSpace(b, p + 1)

\* SkipText that compares only the first byte of s
SkipTextFirstByteOnly(b, p, s) ==
    IF p >= Len(b) \/ p + Len(s) > Len(b) THEN [ok |-> FALSE, pos |-> p]
    ELSE IF s # <<>> /\ s[1] # b[p + 1] THEN [ok |-> FALSE, pos |-> p]
    ELSE [ok |-> TRUE, pos |-> p + Len(s)]

SkipText(b, p, s) ==
    IF p >= Len(b) \/ p + Len(s) > Len(b) THEN [ok |-> FALSE, pos |-> p]
    ELSE IF s # SubSeq(b, p + 1, p + Len(s)) THEN [ok |-> FALSE, pos |-> p]
    ELSE [ok |-> TRUE, pos |-> p + Len(s)]

\* Next without its check for the end of the slice in front of b.pos++
NextByteAdvancesAtEnd(b, p) ==
    [ch |-> IF p >= Len(b) THEN 0 ELSE b[p + 1], ok |-> p < Len(b), pos |-> p + 1]

NextByte(b, p) ==
    IF p >= Len(b) THEN [ch |-> 0, ok |-> FALSE, pos |-> p]
    ELSE [ch |-> b[p + 1], ok |-> TRUE, pos |-> p + 1]

\* the guard with the cutoff (1<<64-1)/10, its "+ 1" forgotten
DecimalOverflowsNoPlusOne(num) == CmpLimbs(num, DivModLimbs(MaxU64, 10).q) >= 0

\* the overflow guard of Uint64: TRUE when the next digit must be refused
DecimalOverflows(num) == CmpLimbs(num, cutoffDecimalUint64) >= 0

\* the number so far is reported as a success even when no digit was consumed
NumberEndsAlwaysOk(p, num, ok) == [num |-> num, ok |-> TRUE, pos |-> p]

\* what Uint64 and HexUint64 return at the end of the slice or at a byte that
\* is no digit: a failure when no digit was consumed, else the number
NumberEnds(p, num, ok) ==
    IF ~ok THEN [num |-> ZeroU64, ok |-> FALSE, pos |-> p]
    ELSE [num |-> num, ok |-> TRUE, pos |-> p]

RECURSIVE Uint64Loop(_, _, _, _)
Uint64Loop(b, p, num, ok) ==
    IF p >= Len(b)
    THEN NumberEnds(p, num, ok)
    ELSE LET ch == b[p + 1]
         IN  IF ch < 48 \/ ch > 57
             THEN NumberEnds(p, num, ok)
             ELSE IF DecimalOverflows(num)
             THEN [num |-> ZeroU64, ok |-> FALSE, pos |-> p]
             ELSE Uint64Loop(b, p + 1, MulAddLimbs(num, 10, ch - 48), TRUE)

Uint64(b, p) == Uint64Loop(b, p, ZeroU64, FALSE)

\* the digit value of a hexadecimal digit byte, -1 for any other byte
HexDigit(ch) ==
    IF ch >= 48 /\ ch <= 57 THEN ch - 48
    ELSE IF ch >= 97 /\ ch <= 102 THEN ch - 97 + 10
    ELSE IF ch >= 65 /\ ch <= 70 THEN ch - 65 + 10
    ELSE -1

\* the guard with a cutoff of 1 << 61
HexOverflowsLateCutoff(num) == CmpLimbs(num, <<0, 0, 0, 8192>>) >= 0

\* the overflow guard of HexUint64
HexOverflows(num) == CmpLimbs(num, cutoffHexUint64) >= 0

RECURSIVE HexUint64Loop(_, _, _, _)
HexUint64Loop(b, p, num, ok) ==
    IF p >= Len(b)
    THEN NumberEnds(p, num, ok)
    ELSE LET digit == HexDigit(b[p + 1])
         IN  IF digit < 0
             THEN NumberEnds(p, num, ok)
             ELSE IF HexOverflows(num)
             THEN [num |-> ZeroU64, ok |-> FALSE, pos |-> p]
             ELSE HexUint64Loop(b, p + 1, MulAddLimbs(num, 16, digit), TRUE)

HexUint64(b, p) == HexUint64Loop(b, p, ZeroU64, FALSE)

RECURSIVE SkipWord(_, _)
\* the inner loop of NumFields that runs over the bytes of one field
SkipWord(b, p) ==
    IF p >= Len(b) THEN p
    ELSE IF b[p + 1] = 32 THEN p
    ELSE SkipWord(b, p + 1)

RECURSIVE NumFieldsLoopCountsFirst(_, _, _)
\* the loop with num++ in front of the skipping of spaces: spaces at the end
\* count as a field
NumFieldsLoopCountsFirst(b, p, num) ==
    IF p >= Len(b) THEN num
    ELSE NumFieldsLoopCountsFirst(b, SkipWord(b, SkipSpace(b, p)), num + 1)

RECURSIVE NumFieldsLoop(_, _, _)
NumFieldsLoop(b, p, num) ==
    LET q == SkipSpace(b, p)
    IN  IF q >= Len(b) THEN num
        ELSE LET e == SkipWord(b, q)
             IN  IF e >= Len(b) THEN num + 1
                 ELSE NumFieldsLoop(b, e, num + 1)

NumFields(b, p) == NumFieldsLoop(b, p, 0)

\* whether ParseUint accepts what Uint64 left behind: the whole buffer was read
ParseUintAtEnd(b, p) == EOL(b, p)

ParseUint(b) ==
    LET r == Uint64(b, 0)
    IN  IF ~r.ok THEN [num |-> ZeroU64, ok |-> FALSE]
        ELSE IF ~ParseUintAtEnd(b, r.pos) THEN [num |-> ZeroU64, ok |-> FALSE]
        ELSE [num |-> r.num, ok |-> TRUE]

(***************************************************************************)
(* Texts the scanner is run on                                             *)
(***************************************************************************)
\* how far the numbers of the texts spread above each anchor value
ScanSpread == 2

\* how many "0" bytes are put in front of a formatted number
MaxLead == 1

\* the same value on eight limbs (128 bits), where no text of the model overflows
Wide(x) == x \o <<0, 0, 0, 0>>

ZeroWide == Wide(ZeroU64)

\* the digit byte of a digit value, as strconv.FormatUint and %X write it
DigitByte(d, upper) ==
    IF d < 10 THEN 48 + d ELSE IF upper THEN 65 + d - 10 ELSE 97 + d - 10

RECURSIVE FormatLimbs(_, _, _)
\* the digits of w in the given base, most significant first, empty for zero
FormatLimbs(w, base, upper) ==
    IF CmpLimbs(w, [i \in DOMAIN w |-> 0]) = 0 THEN <<>>
    ELSE LET dm == DivModLimbs(w, base)
         IN  FormatLimbs(dm.q, base, upper) \o <<DigitByte(dm.r, upper)>>

\* strconv.FormatUint(w, base), fmt's %d, %x and %X
FormatUint(w, base, upper) ==
    IF FormatLimbs(w, base, upper) = <<>> THEN <<48>> ELSE FormatLimbs(w, base, upper)

\* anchors of the decimal texts: 0, 8, the cutoff less one, 2^64-2, 2^64+1
DecAnchors ==
    { ZeroWide,
      Wide(U64(8)),
      Wide([cutoffDecimalUint64 EXCEPT ![1] = @ - 1]),
      Wide([MaxU64 EXCEPT ![1] = @ - 1]),
      MulAddLimbs(Wide(MaxU64), 1, 2) }

\* anchors of the hexadecimal texts: 0, 14, 2^60-1, 2^64-2
HexAnchors ==
    { ZeroWide,
      Wide(U64(14)),
      Wide(<<65535, 65535, 65535, 4095>>),
      Wide([MaxU64 EXCEPT ![1] = @ - 1]) }

DecValues == { MulAddLimbs(a, 1, j) : a \in DecAnchors, j \in 0..ScanSpread }

HexValues == { MulAddLimbs(a, 1, j) : a \in HexAnchors, j \in 0..ScanSpread }

\* what may follow a number: "0", "x"
ScanTails == { <<48>>, <<120>> }

\* a number is written bare, behind leading zeros, or in front of a tail
ScanShapes ==
    [lead : 0..MaxLead, tail : {<<>>}] \cup [lead : {0}, tail : ScanTails]

\* "", " ", " F  BAR BAZ", " F  BAR BAZ RATZ ", "42DO'H!", "DO'H!", "GOSH!",
\* "1ffffffffffffffff"
RawTexts ==
    { <<>>, <<32>>,
      <<32, 70, 32, 32, 66, 65, 82, 32, 66, 65, 90>>,
      <<32, 70, 32, 32, 66, 65, 82, 32, 66, 65, 90, 32, 82, 65, 84, 90, 32>>,
      <<52, 50, 68, 79, 39, 72, 33>>,
      <<68, 79, 39, 72, 33>>,
      <<71, 79, 83, 72, 33>>,
      <<49>> \o [i \in 1..16 |-> 102] }

ScanOrigins ==
    { [kind |-> "dec", val |-> v, lead |-> sh.lead, tail |-> sh.tail, text |-> <<>>] :
        v \in DecValues, sh \in ScanShapes }
    \cup
    { [kind |-> k, val |-> v, lead |-> sh.lead, tail |-> sh.tail, text |-> <<>>] :
        k \in {"hex", "HEX"}, v \in HexValues, sh \in ScanShapes }
    \cup
    { [kind |-> "raw", val |-> ZeroWide, lead |-> 0, tail |-> <<>>, text |-> t] :
        t \in RawTexts }

TextOf(o) ==
    IF o.kind = "raw" THEN o.text
    ELSE [i \in 1..o.lead |-> 48]
         \o FormatUint(o.val, IF o.kind = "dec" THEN 10 ELSE 16, o.kind = "HEX")
         \o o.tail

\* the texts SkipText is asked for: "", "42", " F", "4x", "DO'H!!"
SkipTexts == { <<>>, <<52, 50>>, <<32, 70>>, <<52, 120>>, <<68, 79, 39, 72, 33, 33>> }

(***************************************************************************)
(* RawDirEntry64: one getdents64 record in a byte slice                    *)
(***************************************************************************)
\* unsafe.Offsetof / unsafe.Sizeof of the fields of unix.Dirent (linux_dirent64)
OffsetofIno == 0

SizeofIno == 8

OffsetofReclen == 16

SizeofReclen == 2

OffsetofType == 18

OffsetofName == 19

\* binary.NativeEndian.UintNN of b[offset : offset+size] on a little-endian
\* machine, as a uint64
NativeEndianUint(b, offset, size) ==
    [k \in 1..4 |->
        IF 2 * k <= size THEN b[offset + 2 * k - 1] + 256 * b[offset + 2 * k] ELSE 0]

\* a slice that ends with the field is refused as well
readUintStrict(b, offset, size) ==
    IF offset + size >= Len(b) THEN [val |-> ZeroU64, ok |-> FALSE]
    ELSE IF size \in {8, 4, 2} THEN [val |-> NativeEndianUint(b, offset, size), ok |-> TRUE]
    ELSE [val |-> ZeroU64, ok |-> FALSE]

readUint(b, offset, size) ==
    IF offset + size > Len(b) THEN [val |-> ZeroU64, ok |-> FALSE]
    ELSE IF size \in {8, 4, 2} THEN [val |-> NativeEndianUint(b, offset, size), ok |-> TRUE]
    ELSE [val |-> ZeroU64, ok |-> FALSE]

Ino(d) == readUint(d, OffsetofIno, SizeofIno)

DirentLen(d) == readUint(d, OffsetofReclen, SizeofReclen)

Type(d) ==
    IF OffsetofType >= Len(d) THEN [val |-> 0, ok |-> FALSE]
    ELSE [val |-> d[OffsetofType + 1], ok |-> TRUE]

RECURSIVE NameEndOfSlice(_, _, _)
\* the loop run to the end of the slice instead of the end of the record
NameEndOfSlice(d, p, e) ==
    IF p >= Len(d) THEN Len(d)
    ELSE IF d[p + 1] = 0 THEN p
    ELSE NameEndOfSlice(d, p + 1, e)

RECURSIVE NameEnd(_, _, _)
\* the loop of Name: the index of the first NUL in d[p:e], or e
NameEnd(d, p, e) ==
    IF p >= e THEN e
    ELSE IF d[p + 1] = 0 THEN p
    ELSE NameEnd(d, p + 1, e)

\* the one element of a singleton set; { F(v) : v \in {e} } evaluates e once
The(S) == CHOOSE x \in S : TRUE

\* the end of Name: the loop over d[nameoffset : nameoffset+namelen] and the
\* slice expressions.  A slice expression whose low index is above its high
\* index panics.
NameSlice(d, nameend) ==
    IF CmpLimbs(nameend, U64(Len(d))) > 0
    THEN [ok |-> FALSE, panic |-> FALSE, lo |-> 0, hi |-> 0]
    ELSE The({ IF OffsetofName > hi
               THEN [ok |-> FALSE, panic |-> TRUE, lo |-> OffsetofName, hi |-> hi]
               ELSE [ok |-> TRUE, panic |-> FALSE, lo |-> OffsetofName, hi |-> hi] :
               hi \in {NameEnd(d, OffsetofName, IntOf(nameend))} })

\* Name gives the name as the slice d[lo:hi].  Its length arithmetic is uint64
\* arithmetic and wraps around.
Name(d) ==
    The({ IF ~dentryLen.ok THEN [ok |-> FALSE, panic |-> FALSE, lo |-> 0, hi |-> 0]
          ELSE LET nameoffset == U64(OffsetofName)
                   namelen    == SubLimbs(dentryLen.val, nameoffset, 0)
               IN  The({ NameSlice(d, nameend) :
                         nameend \in {AddLimbs(nameoffset, namelen, 0)} }) :
          dentryLen \in {DirentLen(d)} })

(***************************************************************************)
(* Directories as the kernel hands them out                                *)
(***************************************************************************)
\* how many records a directory holds at most
MaxDirLen == 2

\* how many records one getdents64 call returns at most
MaxBatch == 2

\* how often the sequence ReadDir returned is invoked
MaxRuns == 2

readDirBufferSize == 8192

\* the bytes 0..size-1 of x, least significant first
BytesLE(x, size) ==
    [k \in 1..size |->
        LET limb == x[((k - 1) \div 2) + 1]
        IN  IF (k - 1) % 2 = 0 THEN limb % 256 ELSE limb \div 256]

\* A record is described by its inode, declared length, type byte, name, the
\* bytes after the name and the number of bytes the kernel wrote for it.  Its
\* bytes are those of unix.Dirent in native byte order; d_off is not read by
\* the program and is written as 0xEE bytes.
EncodeDirent(r) ==
    SubSeq(BytesLE(r.ino, SizeofIno) \o [k \in 1..8 |-> 238]
             \o BytesLE(U64(r.reclen), SizeofReclen) \o <<r.typ>> \o r.name \o r.pad,
           1, r.size)

Rec(ino, typ, name, pad) ==
    [ino |-> ino, typ |-> typ, name |-> name, pad |-> pad,
     reclen |-> OffsetofName + Len(name) + Len(pad),
     size |-> OffsetofName + Len(name) + Len(pad)]

\* ".", "..", "bar" (regular, inode above 2^32, its NUL followed by a stale
\* byte), a deleted "old" with inode 0, "qz" (unknown type 42, the record ends
\* with the name, no NUL)
RecDot == Rec(U64(2), 4, <<46>>, <<0, 0, 0, 0>>)

RecDotDot == Rec(U64(2), 4, <<46, 46>>, <<0, 0, 0>>)

RecBar == Rec(<<513, 0, 1, 0>>, 8, <<98, 97, 114>>, <<0, 122>>)

RecTomb == Rec(ZeroU64, 8, <<111, 108, 100>>, <<0, 0>>)

RecTight == Rec(U64(9), 42, <<113, 122>>, <<>>)

WellFormedRecords == {RecDot, RecDotDot, RecBar, RecTomb, RecTight}

\* records no kernel writes: a declared length of zero or below the header, a
\* declared length beyond the bytes written, a record cut off inside its header
MalformedRecords ==
    { [RecBar EXCEPT !.reclen = 0],
      [RecTomb EXCEPT !.reclen = 0],
      [RecBar EXCEPT !.reclen = 8],
      [RecBar EXCEPT !.reclen = 48],
      [RecBar EXCEPT !.size = 10] }

RECURSIVE SeqsUpTo(_, _)
\* the sequences over S of length at most n
SeqsUpTo(S, n) ==
    IF n = 0 THEN {<<>>}
    ELSE LET shorter == SeqsUpTo(S, n - 1)
         IN  shorter \cup { Append(q, x) : q \in {t \in shorter : Len(t) = n - 1}, x \in S }

\* a path names a directory holding some records, or nothing that opens as one
NoDir == [exists |-> FALSE, recs |-> <<>>]

\* the paths of the sequential specification: directories of up to MaxDirLen
\* records, at most one of them malformed, and a path that is no directory
Directories ==
    { [exists |-> TRUE, recs |-> q] :
        q \in { s \in SeqsUpTo(WellFormedRecords \cup MalformedRecords, MaxDirLen) :
                  Cardinality({k \in DOMAIN s : s[k] \in MalformedRecords}) <= 1 } }
    \cup {NoDir}

\* the paths of the concurrent specification, with records as Linux writes them
ConcDirectories ==
    { [exists |-> TRUE, recs |-> <<RecTight>>],
      [exists |-> TRUE, recs |-> <<RecDot, RecBar>>],
      NoDir }

RECURSIVE Flatten(_)
\* the bytes of a batch of records
Flatten(recs) ==
    IF recs = <<>> THEN <<>> ELSE EncodeDirent(Head(recs)) \o Flatten(Tail(recs))

\* syscall.Getdents writes n bytes at the start of the buffer and leaves the
\* bytes behind them as they were
Overwrite(buff, bytes) == bytes \o SubSeq(buff, Len(bytes) + 1, Len(buff))

(***************************************************************************)
(* ReadDir (readdir.go)                                                    *)
(***************************************************************************)
\* the iterations: two sequences returned by ReadDir, each for a path of its own
Iters == {1, 2}

\* buffers New ever makes: one for each sequence, as many as are ever held at
\* once and enough for Get to choose between an idle buffer and a new one
MaxBufs == Cardinality(Iters)

BufIds == 1..MaxBufs

NoEntry == [Ino |-> ZeroU64, NameOff |-> 0, NameLen |-> 0, Type |-> 0]

NoRecord == [len |-> -1, rem |-> -1, nyield |-> 0]

\* the error of unix.Open ignored: the call goes on to fetch a buffer
OpenErrorIgnored == "get"

\* where a failed unix.Open leaves the call: it returns
OpenErrorTarget == "done"

\* a return that runs no deferred call
ReturnWithoutDefers == "done"

\* where a return, or a panic, inside the loop leads: the deferred calls run,
\* readDirBuffer.Put first and unix.Close after it
ReturnTarget == "put"

\* a descriptor that goes on where the invocation before left the directory
OpenOffsetKept(before) == before

\* the directory offset of the descriptor unix.Open returns: the start,
\* wherever a descriptor opened before has got to
OpenOffset(before) == 0

\* a yield whose result is not looked at: the loop goes on
YieldResultIgnored == "loop"

\* where "if !yield(dirEntry) { return }" leads when yield returns false
YieldFalseTarget == ReturnTarget

\* the loop going on while the consumer's loop body still runs
InLoopOrYield(i) == pc[i] \in {"loop", "yield"}

\* the call is inside the for loop and not inside yield
InLoop(i) == pc[i] = "loop"

\* a refill at every pass through the loop
NeedsRefillAlways(p, a) == TRUE

\* "if pos >= avail": the batch in the buffer is used up
NeedsRefill(p, a) == p >= a

\* a pool that keeps the buffer it handed out among its idle ones
PoolKeepsBuffer(idle, id) == idle

\* the pool without the buffer that Get handed out
PoolAfterGet(idle, id) == idle \ {id}

\* the length check left out
RecordFitsUnchecked(dentryLen, dentry) == TRUE

\* the record fits in what is left of the filled buffer
RecordFits(dentryLen, dentry) == CmpLimbs(dentryLen, U64(Len(dentry))) <= 0

\* only an unreadable inode is passed over
SkipInoUnreadableOnly(ino) == ~ino.ok

\* a record whose inode is unreadable or zero is passed over
SkipIno(ino) == ~ino.ok \/ ino.val = ZeroU64

\* the names that are passed over: "." and ".."
IsDotName(name) == name = <<46>> \/ name = <<46, 46>>

\* the loop body from dentry.Name() on
AfterIno(dentry, p, np, ino, nm) ==
    IF nm.panic
    THEN [kind |-> "panic", why |-> "panic", pos |-> np, entry |-> NoEntry]
    ELSE IF ~nm.ok
    THEN [kind |-> "return", why |-> "name", pos |-> np, entry |-> NoEntry]
    ELSE IF IsDotName(SubSeq(dentry, nm.lo + 1, nm.hi))
    THEN [kind |-> "continue", why |-> "", pos |-> np, entry |-> NoEntry]
    ELSE The({ IF ~typ.ok
               THEN [kind |-> "return", why |-> "type", pos |-> np, entry |-> NoEntry]
               ELSE [kind |-> "yield", why |-> "", pos |-> np,
                     entry |-> [Ino |-> ino.val, NameOff |-> p + nm.lo,
                                NameLen |-> nm.hi - nm.lo, Type |-> typ.val]] :
               typ \in {Type(dentry)} })

\* the loop body from dentry.Len() on
AfterRefill(dentry, p, dentryLen) ==
    IF ~dentryLen.ok \/ ~RecordFits(dentryLen.val, dentry)
    THEN [kind |-> "return", why |-> "malformed", pos |-> p, entry |-> NoEntry]
    ELSE The({ IF SkipIno(ino)
               THEN [kind |-> "continue", why |-> "", pos |-> p + IntOf(dentryLen.val),
                     entry |-> NoEntry]
               ELSE The({ AfterIno(dentry, p, p + IntOf(dentryLen.val), ino, nm) :
                          nm \in {Name(dentry)} }) :
               ino \in {Ino(dentry)} })

\* One pass through the loop body after the refill: what becomes of the record
\* at pos.  kind is "return", "continue", "panic" or "yield".
DecodeStep(buff, p, a) ==
    The({ The({ AfterRefill(dentry, p, dentryLen) : dentryLen \in {DirentLen(dentry)} }) :
          dentry \in {SubSeq(buff, p + 1, a)} })

\* the entry as the consumer reads it while its loop body runs: the name is
\* the bytes of the buffer the entry refers to
Cooked(e, buff) ==
    [Ino |-> e.Ino, Name |-> SubSeq(buff, e.NameOff + 1, e.NameOff + e.NameLen),
     Type |-> e.Type]

DirInit(D, active) ==
    /\ dir \in [Iters -> D]
    /\ \A i \in Iters \ active : dir[i] = NoDir
    /\ pc = [i \in Iters |-> "idle"]
    /\ dirpos = [i \in Iters |-> 0]
    /\ fd = [i \in Iters |-> 0]
    /\ rb = [i \in Iters |-> 0]
    /\ pos = [i \in Iters |-> 0]
    /\ avail = [i \in Iters |-> 0]
    /\ cur = [i \in Iters |-> NoEntry]
    /\ bufs = [id \in BufIds |-> <<>>]
    /\ nbufs = 0
    /\ pool = {}
    /\ openFds = {}
    /\ yielded = [i \in Iters |-> <<>>]
    /\ exit = [i \in Iters |-> ""]
    /\ panicked = [i \in Iters |-> FALSE]
    /\ puts = [i \in Iters |-> 0]
    /\ closes = [i \in Iters |-> 0]
    /\ runs = [i \in Iters |-> 0]
    /\ last = [i \in Iters |-> NoRecord]
    /\ wrote = [i \in Iters |-> <<>>]
    /\ prev = [i \in Iters |-> ""]

\* the sequence returned by ReadDir is invoked (again)
Invoke(i, maxRuns) ==
    /\ pc[i] \in {"idle", "done"}
    /\ ~panicked[i]
    /\ runs[i] < maxRuns
    /\ pc' = [pc EXCEPT ![i] = "open"]
    /\ runs' = [runs EXCEPT ![i] = @ + 1]
    /\ yielded' = [yielded EXCEPT ![i] = <<>>]
    /\ exit' = [exit EXCEPT ![i] = ""]
    /\ puts' = [puts EXCEPT ![i] = 0]
    /\ closes' = [closes EXCEPT ![i] = 0]
    /\ last' = [last EXCEPT ![i] = NoRecord]
    /\ wrote' = [wrote EXCEPT ![i] = <<>>]
    /\ prev' = [prev EXCEPT ![i] = exit[i]]
    /\ UNCHANGED <<dir, dirpos, fd, rb, pos, avail, cur, bufs, nbufs, pool, openFds,
                   panicked, scanvars, rf, de>>

\* the lowest descriptor number that is not open
FreeFd == CHOOSE n \in 3..5 : n \notin openFds /\ \A m \in 3..(n - 1) : m \in openFds

\* unix.Open fails: the call returns before anything is deferred
OpenFail(i) ==
    /\ pc[i] = "open"
    /\ ~dir[i].exists
    /\ pc' = [pc EXCEPT ![i] = OpenErrorTarget]
    /\ exit' = [exit EXCEPT ![i] = "open"]
    /\ fd' = [fd EXCEPT ![i] = -1]
    /\ UNCHANGED <<dir, dirpos, rb, pos, avail, cur, bufs, nbufs, pool, openFds, yielded,
                   panicked, puts, closes, runs, last, wrote, prev, scanvars, rf, de>>

\* unix.Open succeeds; the descriptor reads the directory from its start
OpenOk(i) ==
    /\ pc[i] = "open"
    /\ dir[i].exists
    /\ pc' = [pc EXCEPT ![i] = "get"]
    /\ fd' = [fd EXCEPT ![i] = FreeFd]
    /\ openFds' = openFds \cup {FreeFd}
    /\ dirpos' = [dirpos EXCEPT ![i] = OpenOffset(@)]
    /\ UNCHANGED <<dir, rb, pos, avail, cur, bufs, nbufs, pool, yielded, exit, panicked,
                   puts, closes, runs, last, wrote, prev, scanvars, rf, de>>

\* readDirBuffer.Get hands out an idle buffer of the pool
GetPooled(i) ==
    /\ pc[i] = "get"
    /\ \E id \in pool :
          /\ rb' = [rb EXCEPT ![i] = id]
          /\ pool' = PoolAfterGet(pool, id)
    /\ pos' = [pos EXCEPT ![i] = 0]
    /\ avail' = [avail EXCEPT ![i] = 0]
    /\ pc' = [pc EXCEPT ![i] = "loop"]
    /\ UNCHANGED <<dir, dirpos, fd, cur, bufs, nbufs, openFds, yielded, exit, panicked,
                   puts, closes, runs, last, wrote, prev, scanvars, rf, de>>

\* readDirBuffer.Get finds nothing it can hand out, New makes a zeroed buffer
GetNew(i) ==
    /\ pc[i] = "get"
    /\ nbufs < MaxBufs
    /\ nbufs' = nbufs + 1
    /\ rb' = [rb EXCEPT ![i] = nbufs + 1]
    /\ pos' = [pos EXCEPT ![i] = 0]
    /\ avail' = [avail EXCEPT ![i] = 0]
    /\ pc' = [pc EXCEPT ![i] = "loop"]
    /\ UNCHANGED <<dir, dirpos, fd, cur, bufs, pool, openFds, yielded, exit, panicked,
                   puts, closes, runs, last, wrote, prev, scanvars, rf, de>>

\* pos >= avail and syscall.Getdents fails, or the descriptor is not open
RefillError(i) ==
    /\ InLoop(i)
    /\ NeedsRefill(pos[i], avail[i])
    /\ pos' = [pos EXCEPT ![i] = 0]
    /\ avail' = [avail EXCEPT ![i] = -1]
    /\ exit' = [exit EXCEPT ![i] = "read"]
    /\ pc' = [pc EXCEPT ![i] = ReturnTarget]
    /\ UNCHANGED <<dir, dirpos, fd, rb, cur, bufs, nbufs, pool, openFds, yielded,
                   panicked, puts, closes, runs, last, wrote, prev, scanvars, rf, de>>

\* pos >= avail and syscall.Getdents finds the directory read to its end
RefillEnd(i) ==
    /\ InLoop(i)
    /\ NeedsRefill(pos[i], avail[i])
    /\ fd[i] \in openFds
    /\ dirpos[i] >= Len(dir[i].recs)
    /\ pos' = [pos EXCEPT ![i] = 0]
    /\ avail' = [avail EXCEPT ![i] = 0]
    /\ exit' = [exit EXCEPT ![i] = "eof"]
    /\ pc' = [pc EXCEPT ![i] = ReturnTarget]
    /\ UNCHANGED <<dir, dirpos, fd, rb, cur, bufs, nbufs, pool, openFds, yielded,
                   panicked, puts, closes, runs, last, wrote, prev, scanvars, rf, de>>

\* pos >= avail and syscall.Getdents writes the next k records into the buffer
Refill(i) ==
    /\ InLoop(i)
    /\ NeedsRefill(pos[i], avail[i])
    /\ fd[i] \in openFds
    /\ \E k \in 1..MaxBatch :
          /\ dirpos[i] + k <= Len(dir[i].recs)
          /\ \E bytes \in {Flatten(SubSeq(dir[i].recs, dirpos[i] + 1, dirpos[i] + k))} :
                 /\ Len(bytes) <= readDirBufferSize
                 /\ bufs' = [bufs EXCEPT ![rb[i]] = Overwrite(@, bytes)]
                 /\ avail' = [avail EXCEPT ![i] = Len(bytes)]
                 /\ wrote' = [wrote EXCEPT ![i] = bytes]
          /\ dirpos' = [dirpos EXCEPT ![i] = @ + k]
    /\ pos' = [pos EXCEPT ![i] = 0]
    /\ UNCHANGED <<pc, dir, fd, rb, cur, nbufs, pool, openFds, yielded, exit, panicked,
                   puts, closes, runs, last, prev, scanvars, rf, de>>

\* pos < avail: the record at pos is decoded; it ends the scan, is passed over,
\* makes Name panic, or is yielded to the consumer
Decode(i) ==
    /\ InLoop(i)
    /\ pos[i] < avail[i] \/ ~NeedsRefill(pos[i], avail[i])
    /\ \E step \in {DecodeStep(bufs[rb[i]], pos[i], avail[i])} :
       \E dentryLen \in {DirentLen(SubSeq(bufs[rb[i]], pos[i] + 1, avail[i]))} :
           /\ pos' = [pos EXCEPT ![i] = step.pos]
           /\ last' = [last EXCEPT ![i] =
                         [len |-> IF dentryLen.ok THEN IntOf(dentryLen.val) ELSE -1,
                          rem |-> avail[i] - pos[i], nyield |-> Len(yielded[i])]]
           /\ pc' = [pc EXCEPT ![i] =
                       CASE step.kind = "continue" -> "loop"
                         [] step.kind = "yield" -> "yield"
                         [] OTHER -> ReturnTarget]
           /\ exit' = [exit EXCEPT ![i] = step.why]
           /\ panicked' = [panicked EXCEPT ![i] = step.kind = "panic"]
           /\ cur' = [cur EXCEPT ![i] = IF step.kind = "yield" THEN step.entry ELSE @]
           /\ yielded' = [yielded EXCEPT ![i] =
                            IF step.kind = "yield"
                            THEN Append(@, Cooked(step.entry, bufs[rb[i]]))
                            ELSE @]
    /\ UNCHANGED <<dir, dirpos, fd, rb, avail, bufs, nbufs, pool, openFds, puts, closes,
                   runs, wrote, prev, scanvars, rf, de>>

\* the consumer's loop body ends and asks for the next entry
ConsumerContinues(i) ==
    /\ pc[i] = "yield"
    /\ pc' = [pc EXCEPT ![i] = "loop"]
    /\ UNCHANGED <<dir, dirpos, fd, rb, pos, avail, cur, bufs, nbufs, pool, openFds,
                   yielded, exit, panicked, puts, closes, runs, last, wrote, prev, scanvars, rf, de>>

\* the consumer's loop body leaves the loop: yield returns false
ConsumerStops(i) ==
    /\ pc[i] = "yield"
    /\ pc' = [pc EXCEPT ![i] = YieldFalseTarget]
    /\ exit' = [exit EXCEPT ![i] = "stop"]
    /\ UNCHANGED <<dir, dirpos, fd, rb, pos, avail, cur, bufs, nbufs, pool, openFds,
                   yielded, panicked, puts, closes, runs, last, wrote, prev, scanvars, rf, de>>

\* deferred readDirBuffer.Put(rb)
Put(i) ==
    /\ pc[i] = "put"
    /\ pool' = pool \cup {rb[i]}
    /\ rb' = [rb EXCEPT ![i] = 0]
    /\ puts' = [puts EXCEPT ![i] = @ + 1]
    /\ pc' = [pc EXCEPT ![i] = "close"]
    /\ UNCHANGED <<dir, dirpos, fd, pos, avail, cur, bufs, nbufs, openFds, yielded, exit,
                   panicked, closes, runs, last, wrote, prev, scanvars, rf, de>>

\* deferred unix.Close(fd); a panic goes on to the caller after it
Close(i) ==
    /\ pc[i] = "close"
    /\ openFds' = openFds \ {fd[i]}
    /\ fd' = [fd EXCEPT ![i] = 0]
    /\ closes' = [closes EXCEPT ![i] = @ + 1]
    /\ pc' = [pc EXCEPT ![i] = "done"]
    /\ UNCHANGED <<dir, dirpos, rb, pos, avail, cur, bufs, nbufs, pool, yielded, exit,
                   panicked, puts, runs, last, wrote, prev, scanvars, rf, de>>

IterStep(i, maxRuns) ==
    \/ Invoke(i, maxRuns)
    \/ OpenFail(i)
    \/ OpenOk(i)
    \/ GetPooled(i)
    \/ GetNew(i)
    \/ RefillError(i)
    \/ RefillEnd(i)
    \/ Refill(i)
    \/ Decode(i)
    \/ ConsumerContinues(i)
    \/ ConsumerStops(i)
    \/ Put(i)
    \/ Close(i)

\* what a call on a RawDirEntry64 left: the call, the value or the bounds of
\* the name returned, ok, whether it panicked, the indices of the bytes it
\* read as a number or returned as the name
DirentRet(op, val, ok, panic, lo, hi, reads) ==
    [op |-> op, val |-> val, ok |-> ok, panic |-> panic, lo |-> lo, hi |-> hi,
     reads |-> reads]

\* no RawDirEntry64 in use
NoDirentCall == [d |-> <<>>] @@ DirentRet("", ZeroU64, FALSE, FALSE, 0, 0, {})

\* a nil slice
NilSlice == [nil |-> TRUE, arr |-> 0, len |-> 0, cap |-> 0]

\* no call of ReadFile
NoReadFile ==
    [pc |-> "idle", file |-> [exists |-> FALSE, size |-> 0], supplied |-> NilSlice,
     buffer |-> NilSlice, mem |-> <<>>, narr |-> 0, off |-> 0, fdopen |-> FALSE,
     ret |-> [buf |-> NilSlice, bytes |-> <<>>, ok |-> FALSE], why |-> "",
     panicked |-> FALSE]

\* what a call on the Bytestring left: the call, the cursor it started from, its results
Ret(op, from, num, ok) == [op |-> op, from |-> from, num |-> num, ok |-> ok]

ScanIdle ==
    /\ sorigin = [kind |-> "raw", val |-> ZeroWide, lead |-> 0, tail |-> <<>>, text |-> <<>>]
    /\ sb = <<>>
    /\ spos = 0
    /\ sret = Ret("NewBytestring", 0, ZeroU64, TRUE)

\* one sequence returned by ReadDir, invoked up to MaxRuns times, over any directory
Init == ScanIdle /\ DirInit(Directories, {1}) /\ rf = NoReadFile /\ de = NoDirentCall

Next == IterStep(1, MaxRuns)

Spec == Init /\ [][Next]_vars

\* how often each of the two sequences is invoked: the first up to MaxRuns
\* times, the second once
ConcRuns(i) == IF i = 1 THEN MaxRuns ELSE 1

\* two sequences over two different paths, ranged over by two goroutines
ConcInit == ScanIdle /\ DirInit(ConcDirectories, Iters) /\ dir[1] # dir[2]
            /\ rf = NoReadFile /\ de = NoDirentCall

ConcNext == \E i \in Iters : IterStep(i, ConcRuns(i))

ConcSpec == ConcInit /\ [][ConcNext]_vars

\* every goroutine that can take a step takes one in the end
ConcFairSpec == ConcSpec /\ \A i \in Iters : WF_vars(IterStep(i, ConcRuns(i)))

(***************************************************************************)
(* The scanner as a state machine: one Bytestring, any sequence of calls   *)
(***************************************************************************)
ScanInit ==
    /\ sorigin \in ScanOrigins
    /\ sb = TextOf(sorigin)
    /\ spos = 0
    /\ sret = Ret("NewBytestring", 0, ZeroU64, TRUE)
    /\ DirInit({NoDir}, {})
    /\ rf = NoReadFile /\ de = NoDirentCall

CallEOL ==
    /\ sret' = Ret("EOL", spos, ZeroU64, EOL(sb, spos))
    /\ UNCHANGED <<sb, spos, sorigin, dirvars, rf, de>>

CallSkipSpace ==
    /\ spos' = SkipSpace(sb, spos)
    /\ sret' = Ret("SkipSpace", spos, ZeroU64, EOL(sb, spos'))
    /\ UNCHANGED <<sb, sorigin, dirvars, rf, de>>

CallSkipText ==
    \E s \in SkipTexts :
        LET r == SkipText(sb, spos, s)
        IN  /\ spos' = r.pos
            /\ sret' = [arg |-> s] @@ Ret("SkipText", spos, U64(Len(s)), r.ok)
            /\ UNCHANGED <<sb, sorigin, dirvars, rf, de>>

CallNext ==
    LET r == NextByte(sb, spos)
    IN  /\ spos' = r.pos
        /\ sret' = Ret("Next", spos, U64(r.ch), r.ok)
        /\ UNCHANGED <<sb, sorigin, dirvars, rf, de>>

CallUint64 ==
    LET r == Uint64(sb, spos)
    IN  /\ spos' = r.pos
        /\ sret' = Ret("Uint64", spos, r.num, r.ok)
        /\ UNCHANGED <<sb, sorigin, dirvars, rf, de>>

CallHexUint64 ==
    LET r == HexUint64(sb, spos)
    IN  /\ spos' = r.pos
        /\ sret' = Ret("HexUint64", spos, r.num, r.ok)
        /\ UNCHANGED <<sb, sorigin, dirvars, rf, de>>

CallNumFields ==
    /\ sret' = Ret("NumFields", spos, U64(NumFields(sb, spos)), TRUE)
    /\ UNCHANGED <<sb, spos, sorigin, dirvars, rf, de>>

\* ParseUint scans the whole buffer with a Bytestring of its own
CallParseUint ==
    LET r == ParseUint(sb)
    IN  /\ sret' = Ret("ParseUint", 0, r.num, r.ok)
        /\ UNCHANGED <<sb, spos, sorigin, dirvars, rf, de>>

ScanNext ==
    \/ CallEOL
    \/ CallSkipSpace
    \/ CallSkipText
    \/ CallNext
    \/ CallUint64
    \/ CallHexUint64
    \/ CallNumFields
    \/ CallParseUint

ScanSpec == ScanInit /\ [][ScanNext]_vars

(***************************************************************************)
(* ReadFile (readfile.go): a file is its size, the byte at offset k being  *)
(* FileByte(k); a slice is its backing array, length and capacity, and mem *)
(* holds the bytes of the current backing array up to its capacity         *)
(***************************************************************************)

\* size := 512, the least capacity ReadFile reads with
initialSize == 512

\* how far the files go beyond the initial capacity
MaxOver == 1

FileByte(k) == ((k * 37) % 251) + 1

FileBytes(n) == [k \in 1..n |-> FileByte(k - 1)]

Zeroes(n) == [k \in 1..n |-> 0]

\* files to read: missing, empty, short, and around one and two buffers' worth
Files ==
    {[exists |-> FALSE, size |-> 0]}
        \cup {[exists |-> TRUE, size |-> n] :
                n \in {0, 1, initialSize - 1, initialSize, initialSize + MaxOver,
                       2 * initialSize + MaxOver}}

\* buffers the caller passes: nil, empty, too small, exactly fitting and full,
\* larger with some length
SuppliedSlices ==
    {NilSlice}
        \cup {[nil |-> FALSE, arr |-> 1, len |-> s[1], cap |-> s[2]] :
                s \in {<<0, 0>>, <<7, initialSize - 1>>, <<initialSize, initialSize>>,
                       <<3, initialSize + 3>>}}

\* the bytes a slice shows
Visible(b, bytes) == SubSeq(bytes, 1, b.len)

\* the call ReadFile(name, buffer) about to open the file
StartReadFile(f, s) ==
    [NoReadFile EXCEPT !.pc = "open", !.file = f, !.supplied = s, !.buffer = s,
                       !.mem = [k \in 1..s.cap |-> 255], !.narr = s.arr]

\* return buffer, ok
Return(r, b, ok, why, to) ==
    [r EXCEPT !.buffer = b,
              !.ret = [buf |-> b, bytes |-> Visible(b, r.mem), ok |-> ok],
              !.why = why, !.pc = to]

\* unix.Open fails: return buffer, false, before the Close is deferred
RFOpenFail ==
    /\ rf.pc = "open"
    /\ ~rf.file.exists
    /\ rf' = Return(rf, rf.buffer, FALSE, "open", "done")
    /\ UNCHANGED <<scanvars, dirvars, de>>

\* unix.Open succeeds, unix.Close is deferred; buffer = buffer[:0], and a
\* buffer of less than size capacity is replaced by make([]byte, 0, size)
RFOpenOk ==
    /\ rf.pc = "open"
    /\ rf.file.exists
    /\ rf' = IF initialSize > rf.buffer.cap
                THEN [rf EXCEPT !.pc = "read", !.fdopen = TRUE,
                                !.buffer = [nil |-> FALSE, arr |-> rf.narr + 1,
                                            len |-> 0, cap |-> initialSize],
                                !.mem = Zeroes(initialSize), !.narr = @ + 1]
                ELSE [rf EXCEPT !.pc = "read", !.fdopen = TRUE, !.buffer.len = 0]
    /\ UNCHANGED <<scanvars, dirvars, de>>

\* what read(2) may return for room bytes of room with left bytes to go:
\* nothing at the end of the file, else all it can or a short count
ReadCounts(room, left) ==
    IF left = 0 \/ room = 0
        THEN {0}
        ELSE UNION { {m, (m + 1) \div 2} : m \in {IF room < left THEN room ELSE left} }

\* the backing array after read(2) has stored n bytes from offset off at index len
Stored(bytes, len, off, n) ==
    [k \in 1..Len(bytes) |->
        IF len < k /\ k <= len + n THEN FileByte(off + k - len - 1) ELSE bytes[k]]

\* buffer[:len(buffer)+n] is in range
ResliceOk(b, n) == 0 <= b.len + n /\ b.len + n <= b.cap

\* the capacity of append(buffer[:cap(buffer)], 0): more than before, how much
\* more is the runtime's choice
AppendCaps(c) == {c + 1, 2 * c}

GrownFresh(bytes, c) == Zeroes(c)

\* the backing array of append(buffer[:cap(buffer)], 0) with capacity c
Grown(bytes, c) == bytes \o Zeroes(c - Len(bytes))

\* a buffer taken for full with one byte of room left
BufferNearlyFull(b) == b.len + 1 >= b.cap

\* "if len(buffer) == cap(buffer)": no room is left for the next read
BufferFull(b) == b.len = b.cap

\* one round of the loop whose read stores n > 0 bytes: the buffer takes them
\* in, and a full buffer moves to a larger backing array
RFRead ==
    /\ rf.pc = "read"
    /\ \E n \in ReadCounts(rf.buffer.cap - rf.buffer.len, rf.file.size - rf.off) :
        /\ n > 0
        /\ \E b \in {[rf.buffer EXCEPT !.len = @ + n]} :
           \E bytes \in {Stored(rf.mem, rf.buffer.len, rf.off, n)} :
            IF BufferFull(b)
                THEN \E c \in AppendCaps(b.cap) :
                        rf' = [rf EXCEPT !.buffer = [b EXCEPT !.arr = rf.narr + 1,
                                                              !.cap = c],
                                         !.mem = Grown(bytes, c), !.narr = @ + 1,
                                         !.off = @ + n]
                ELSE rf' = [rf EXCEPT !.buffer = b, !.mem = bytes, !.off = @ + n]
    /\ UNCHANGED <<scanvars, dirvars, de>>

\* a read of zero bytes: return buffer, true
RFReadEnd ==
    /\ rf.pc = "read"
    /\ 0 \in ReadCounts(rf.buffer.cap - rf.buffer.len, rf.file.size - rf.off)
    /\ rf' = Return(rf, rf.buffer, TRUE, "eof", "close")
    /\ UNCHANGED <<scanvars, dirvars, de>>

\* the count unix.Read reports together with an error
ReadErrorCount == 0 - 1

\* a read fails: buffer[:len(buffer)+n] is taken with the count of the failed
\* read before err is looked at, then return buffer, false
RFReadError ==
    /\ rf.pc = "read"
    /\ rf' = IF ResliceOk(rf.buffer, ReadErrorCount)
                THEN Return(rf, [rf.buffer EXCEPT !.len = @ + ReadErrorCount],
                            FALSE, "read", "close")
                ELSE [rf EXCEPT !.panicked = TRUE, !.why = "read", !.pc = "close"]
    /\ UNCHANGED <<scanvars, dirvars, de>>

\* the deferred unix.Close(fd)
RFClose ==
    /\ rf.pc = "close"
    /\ rf' = [rf EXCEPT !.fdopen = FALSE, !.pc = "done"]
    /\ UNCHANGED <<scanvars, dirvars, de>>

FileInit ==
    /\ ScanIdle
    /\ DirInit({NoDir}, {})
    /\ rf \in { StartReadFile(f, s) : f \in Files, s \in SuppliedSlices }
    /\ de = NoDirentCall

FileNext == RFOpenFail \/ RFOpenOk \/ RFRead \/ RFReadEnd \/ RFReadError \/ RFClose

FileSpec == FileInit /\ [][FileNext]_vars

(***************************************************************************)
(* RawDirEntry64 as a state machine: one byte slice, any sequence of calls *)
(* of its accessors                                                        *)
(***************************************************************************)

\* values of the record-length field: zero, below, at and above the offset of
\* the name, the bytes written for the record, more than them, the largest
RawReclens(r) ==
    {0, 1, OffsetofReclen, OffsetofName - 1, OffsetofName, OffsetofName + 1,
     r.size - 1, r.size, r.size + 1, LimbBase - 1}

\* the slices the accessors are called on: records with any value in their
\* record-length field, cut off anywhere
RawSlices ==
    { EncodeDirent([r EXCEPT !.reclen = l, !.size = n]) :
        r \in {RecBar, RecTight}, l \in UNION {RawReclens(RecBar), RawReclens(RecTight)},
        n \in 0..RecTight.size }
    \cup { EncodeDirent([RecBar EXCEPT !.reclen = l]) : l \in RawReclens(RecBar) }

\* the bytes readUint reads: those of b[offset : offset+size], when it gets there
readUintReads(b, offset, size) ==
    IF offset + size > Len(b) THEN {}
    ELSE IF size \in {8, 4, 2} THEN offset..(offset + size - 1)
    ELSE {}

CallIno ==
    /\ de.op # ""
    /\ \E r \in {Ino(de.d)} :
         de' = [d |-> de.d] @@ DirentRet("Ino", r.val, r.ok, FALSE, 0, 0,
                                         readUintReads(de.d, OffsetofIno, SizeofIno))
    /\ UNCHANGED <<scanvars, dirvars, rf>>

CallLen ==
    /\ de.op # ""
    /\ \E r \in {DirentLen(de.d)} :
         de' = [d |-> de.d] @@ DirentRet("Len", r.val, r.ok, FALSE, 0, 0,
                                         readUintReads(de.d, OffsetofReclen, SizeofReclen))
    /\ UNCHANGED <<scanvars, dirvars, rf>>

CallType ==
    /\ de.op # ""
    /\ \E r \in {Type(de.d)} :
         de' = [d |-> de.d] @@ DirentRet("Type", U64(r.val), r.ok, FALSE, 0, 0,
                                         IF r.ok THEN {OffsetofType} ELSE {})
    /\ UNCHANGED <<scanvars, dirvars, rf>>

CallName ==
    /\ de.op # ""
    /\ \E r \in {Name(de.d)} :
         de' = [d |-> de.d] @@ DirentRet("Name", ZeroU64, r.ok, r.panic, r.lo, r.hi,
                                         readUintReads(de.d, OffsetofReclen, SizeofReclen)
                                             \cup (IF r.ok THEN r.lo..(r.hi - 1) ELSE {}))
    /\ UNCHANGED <<scanvars, dirvars, rf>>

DirentInit ==
    /\ ScanIdle
    /\ DirInit({NoDir}, {})
    /\ rf = NoReadFile
    /\ de \in { [d |-> s] @@ DirentRet("RawDirEntry64", ZeroU64, TRUE, FALSE, 0, 0, {}) :
                s \in RawSlices }

DirentNext == CallIno \/ CallLen \/ CallType \/ CallName

DirentSpec == DirentInit /\ [][DirentNext]_vars

(***************************************************************************)
(* What a text means: the run of digits at a cursor and its value          *)
(***************************************************************************)
IsDigit(ch, base) == IF base = 10 THEN ch >= 48 /\ ch <= 57 ELSE HexDigit(ch) >= 0

RECURSIVE RunEnd(_, _, _)
\* the index of the first byte at or after p that is no digit of the base
RunEnd(b, p, base) ==
    IF p >= Len(b) THEN p
    ELSE IF ~IsDigit(b[p + 1], base) THEN p
    ELSE RunEnd(b, p + 1, base)

RECURSIVE RunValue(_, _, _, _)
\* the number the digits b[p..e-1] denote, on eight limbs
RunValue(b, p, e, base) ==
    IF e <= p THEN ZeroWide
    ELSE MulAddLimbs(RunValue(b, p, e - 1, base), base, HexDigit(b[e]))

MaxWide == Wide(MaxU64)

\* C2: Uint64 and ParseUint fail with (0, false) on every run of decimal digits
\* whose value exceeds 2^64-1; no wrapped-around value is returned as a success.
C2_OverflowRejected ==
    sret.op \in {"Uint64", "ParseUint"} =>
        LET e == RunEnd(sb, sret.from, 10)
        IN  (e > sret.from /\ CmpLimbs(RunValue(sb, sret.from, e, 10), MaxWide) > 0)
                => (~sret.ok /\ sret.num = ZeroU64)

\* C8: scanning the decimal text of n with Uint64, or its hexadecimal text in
\* either case with HexUint64, gives (n, true) with the cursor at the end of the
\* text, for every n up to 2^64-1.
C8_LeftInverse ==
    ( /\ sorigin.kind # "raw"
      /\ sorigin.lead = 0
      /\ sorigin.tail = <<>>
      /\ CmpLimbs(sorigin.val, MaxWide) <= 0
      /\ sret.from = 0
      /\ \/ sorigin.kind = "dec" /\ sret.op = "Uint64"
         \/ sorigin.kind \in {"hex", "HEX"} /\ sret.op = "HexUint64" )
    => ( sret.ok /\ Wide(sret.num) = sorigin.val /\ spos = Len(sb) )

C8_Witness ==
    /\ sorigin.kind = "dec"
    /\ sorigin.lead = 0
    /\ sorigin.tail = <<>>
    /\ sorigin.val = MaxWide
    /\ sret.op = "Uint64"
    /\ sret.from = 0
    /\ sret.ok
    /\ sret.num = MaxU64

\* C9: HexUint64 accepts every run of hexadecimal digits whose value is at most
\* 2^64-1, leading zeros included, returning that value, and fails with
\* (0, false) on every run whose value exceeds 2^64-1.
C9_HexCutoffExact ==
    sret.op = "HexUint64" =>
        LET e == RunEnd(sb, sret.from, 16)
            v == RunValue(sb, sret.from, e, 16)
        IN  e > sret.from =>
                IF CmpLimbs(v, MaxWide) <= 0
                THEN sret.ok /\ Wide(sret.num) = v /\ spos = e
                ELSE ~sret.ok /\ sret.num = ZeroU64

C9_Witness ==
    /\ sorigin.kind = "hex"
    /\ sorigin.lead = 1
    /\ sorigin.val = MaxWide
    /\ sret.op = "HexUint64"
    /\ sret.from = 0
    /\ sret.ok
    /\ sret.num = MaxU64

\* C10: ParseUint returns (n, true) only when the whole buffer is a non-empty
\* run of decimal digits of value n; an empty buffer, a leading non-digit or
\* any byte left over after the digits gives (0, false).
C10_ParseUintWholeBuffer ==
    sret.op = "ParseUint" =>
        LET whole == sb # <<>> /\ RunEnd(sb, 0, 10) = Len(sb)
        IN  /\ sret.ok => (whole /\ Wide(sret.num) = RunValue(sb, 0, Len(sb), 10))
            /\ ~whole => (~sret.ok /\ sret.num = ZeroU64)

\* C11: Uint64 and HexUint64 fail with (0, false) and leave the cursor where it
\* was when the cursor is at the end of the slice or the byte at the cursor is
\* no digit of the base.
C11_NoDigitFails ==
    /\ (sret.op = "Uint64" /\ RunEnd(sb, sret.from, 10) = sret.from)
           => (~sret.ok /\ sret.num = ZeroU64 /\ spos = sret.from)
    /\ (sret.op = "HexUint64" /\ RunEnd(sb, sret.from, 16) = sret.from)
           => (~sret.ok /\ sret.num = ZeroU64 /\ spos = sret.from)

\* Uint64 failed on the "D" of "42DO'H!", behind the digits read before
C11_Witness ==
    /\ sb = <<52, 50, 68, 79, 39, 72, 33>>
    /\ sret.op = "Uint64"
    /\ sret.from = 2
    /\ ~sret.ok
    /\ spos = 2

\* C12: the cursor is always between 0 and the length of the slice, and no
\* call leaves it smaller than it was before the call.
C12_CursorInBoundsMonotonic ==
    /\ [](0 <= spos /\ spos <= Len(sb))
    /\ [][spos' >= spos]_vars

\* the cursor has moved and has not reached the end
C12_Witness ==
    /\ sret.op \in {"Next", "SkipSpace", "SkipText", "Uint64", "HexUint64"}
    /\ sret.from < spos
    /\ spos < Len(sb)

\* whether the bytes of b at the cursor p are those of s, all of them
TextAt(b, p, s) == p + Len(s) <= Len(b) /\ SubSeq(b, p + 1, p + Len(s)) = s

\* C13: SkipText(s) returns true, with the cursor moved on by len(s), only if
\* the bytes at the cursor are s in full; on a mismatch or with fewer than
\* len(s) bytes left it returns false; whenever it returns false the cursor is
\* unchanged.
C13_SkipTextAllOrNothing ==
    sret.op = "SkipText" =>
        /\ sret.ok => (TextAt(sb, sret.from, sret.arg) /\ spos = sret.from + Len(sret.arg))
        /\ ~TextAt(sb, sret.from, sret.arg) => ~sret.ok
        /\ ~sret.ok => spos = sret.from

\* "4x" is refused on "42DO'H!" though its first byte matches
C13_Witness ==
    /\ sb = <<52, 50, 68, 79, 39, 72, 33>>
    /\ sret.op = "SkipText"
    /\ sret.arg = <<52, 120>>
    /\ sret.from = 0
    /\ ~sret.ok
    /\ spos = 0

\* the number of maximal runs of non-space bytes of b from the cursor p on:
\* the number of bytes that start one
FieldStarts(b, p) ==
    Cardinality({ k \in (p + 1)..Len(b) : b[k] # 32 /\ (k = p + 1 \/ b[k - 1] = 32) })

\* C14: NumFields returns the number of maximal runs of non-space bytes from
\* the cursor to the end of the slice and leaves the cursor unchanged.
C14_NumFieldsCountsRuns ==
    sret.op = "NumFields" =>
        /\ sret.num = U64(FieldStarts(sb, sret.from))
        /\ spos = sret.from

\* three fields are counted in " F  BAR BAZ RATZ " from inside its first gap
C14_Witness ==
    /\ sb = <<32, 70, 32, 32, 66, 65, 82, 32, 66, 65, 90, 32, 82, 65, 84, 90, 32>>
    /\ sret.op = "NumFields"
    /\ sret.from = 3
    /\ sret.num = U64(3)

(***************************************************************************)
(* What a directory means: the entries a complete scan is to yield         *)
(***************************************************************************)
\* a record as Linux writes it: the declared length is the number of its bytes,
\* the name is not empty and holds no NUL, and what follows the name starts
\* with a NUL unless the record ends with the name
WellFormedRec(r) ==
    /\ r.reclen = r.size
    /\ r.size = OffsetofName + Len(r.name) + Len(r.pad)
    /\ r.name # <<>>
    /\ \A k \in DOMAIN r.name : r.name[k] # 0
    /\ r.pad # <<>> => r.pad[1] = 0

WellFormedDir(d) == d.exists /\ \A k \in DOMAIN d.recs : WellFormedRec(d.recs[k])

IsReal(r) == r.ino # ZeroU64 /\ r.name # <<46>> /\ r.name # <<46, 46>>

RECURSIVE Expected(_)
\* the real entries of the records, in their order
Expected(recs) ==
    IF recs = <<>> THEN <<>>
    ELSE (IF IsReal(Head(recs))
          THEN <<[Ino |-> Head(recs).ino, Name |-> Head(recs).name, Type |-> Head(recs).typ]>>
          ELSE <<>>) \o Expected(Tail(recs))

IsPrefix(s, t) == Len(s) <= Len(t) /\ s = SubSeq(t, 1, Len(s))

Exited(i) == pc[i] \in {"put", "close", "done"}

\* C1: over a directory of well-formed records ReadDir yields the records with a
\* non-zero inode and a name other than "." and "..", each once, in the kernel's
\* order, with inode, name and type unchanged: what is yielded is always a prefix
\* of them, and all of them once the directory is read to its end.
C1_YieldsRealEntries ==
    \A i \in Iters :
        WellFormedDir(dir[i]) =>
            /\ IsPrefix(yielded[i], Expected(dir[i].recs))
            /\ exit[i] = "eof" => yielded[i] = Expected(dir[i].recs)
            /\ ~panicked[i]
            /\ exit[i] \notin {"malformed", "name", "type"}

C1_Witness ==
    /\ dir[1].recs = <<RecTomb, RecBar>>
    /\ pc[1] = "done"
    /\ exit[1] = "eof"
    /\ Len(yielded[1]) = 1

\* the bytes of s in front of its first NUL, all of s when it holds none
UpToNul(s) ==
    LET nuls == { k \in DOMAIN s : s[k] = 0 }
    IN  IF nuls = {} THEN s
        ELSE SubSeq(s, 1, (CHOOSE k \in nuls : \A j \in nuls : k <= j) - 1)

\* the slice buff[pos:avail] the record of the entry at the consumer was
\* decoded from
YieldedSlice(i) == SubSeq(bufs[rb[i]], pos[i] - last[i].len + 1, avail[i])

\* C15: when the declared name region d[19:dentryLen] lies inside the slice,
\* Name gives the bytes of the region in front of its first NUL, or the whole
\* region when it holds no NUL, and nothing beyond the region even when the
\* slice goes on; this is the name the yielded entry carries.
C15_NameWithinDeclaredRegion ==
    \A i \in Iters :
        pc[i] = "yield" =>
            LET d      == YieldedSlice(i)
                region == SubSeq(d, OffsetofName + 1, last[i].len)
                nm     == Name(d)
            IN  /\ OffsetofName <= last[i].len /\ last[i].len <= Len(d)
                /\ nm.ok /\ ~nm.panic
                /\ nm.lo = OffsetofName /\ nm.hi <= last[i].len
                /\ SubSeq(d, nm.lo + 1, nm.hi) = UpToNul(region)
                /\ yielded[i][Len(yielded[i])].Name = UpToNul(region)

\* "qz", whose record holds no NUL, is yielded from a buffer that goes on with
\* the record of "bar"
C15_Witness ==
    /\ dir[1].recs = <<RecTight, RecBar>>
    /\ pc[1] = "yield"
    /\ pos[1] = RecTight.size
    /\ avail[1] = RecTight.size + RecBar.size
    /\ yielded[1] = <<[Ino |-> RecTight.ino, Name |-> RecTight.name, Type |-> RecTight.typ]>>

\* C3: a record that declares a length below the fixed header (zero included)
\* ends the scan silently: no panic, no further pass over the buffer, and
\* nothing more is yielded.
C3_ShortRecordEndsScan ==
    \A i \in Iters :
        (last[i].len >= 0 /\ last[i].len < OffsetofName) =>
            /\ Exited(i)
            /\ ~panicked[i]
            /\ exit[i] = "malformed"
            /\ Len(yielded[i]) = last[i].nyield

\* C4: inside the loop an iteration holds one open descriptor and one buffer
\* that is not idle in the pool; every exit from the loop runs the deferred
\* calls; once the iteration is over the buffer was put back once, the
\* descriptor closed once, and it holds neither.
C4_ReleasedExactlyOnce ==
    \A i \in Iters :
        /\ pc[i] \in {"loop", "yield"} =>
              /\ rb[i] \in BufIds /\ rb[i] \notin pool
              /\ fd[i] \in openFds
              /\ puts[i] = 0 /\ closes[i] = 0
        /\ exit[i] \in {"eof", "read", "malformed", "name", "type", "stop", "panic"}
              => Exited(i)
        /\ (pc[i] = "done" /\ exit[i] # "open") =>
              /\ puts[i] = 1 /\ closes[i] = 1
              /\ rb[i] = 0 /\ fd[i] = 0
        /\ Cardinality(openFds) = Cardinality({j \in Iters : fd[j] > 0})

C4_Witness ==
    /\ pc[1] = "done"
    /\ exit[1] = "stop"
    /\ puts[1] = 1
    /\ closes[1] = 1
    /\ openFds = {}
    /\ pool # {}

\* no buffer is held by two iterations or held while idle in the pool; the
\* filled part of an iteration's buffer is what its own kernel read wrote; the
\* entry the consumer looks at and all entries yielded are those of its own
\* directory
C5_NoCrossTalk ==
    \A i \in Iters :
        /\ rb[i] # 0 =>
              /\ rb[i] \notin pool
              /\ \A j \in Iters \ {i} : rb[j] # rb[i]
        /\ (pc[i] \in {"loop", "yield"} /\ avail[i] > 0) =>
              SubSeq(bufs[rb[i]], 1, avail[i]) = wrote[i]
        /\ pc[i] = "yield" =>
              Cooked(cur[i], bufs[rb[i]]) = yielded[i][Len(yielded[i])]
        /\ IsPrefix(yielded[i], Expected(dir[i].recs))

\* C5: under any interleaving of concurrent iterations over directories as
\* Linux writes them, no buffer is held by two iterations at once, every entry
\* an iteration yields comes from bytes its own read wrote, and each iteration
\* terminates.
C5_ExclusiveBuffers ==
    /\ []C5_NoCrossTalk
    /\ \A i \in Iters : <>[](pc[i] = "done")

\* both consumers look at an entry, the first in its second invocation, each
\* iteration on a buffer of its own
C5_Witness ==
    /\ runs[1] = 2
    /\ pc[1] = "yield"
    /\ pc[2] = "yield"
    /\ rb[1] # rb[2]
    /\ dir[1] # dir[2]

\* C16: while the consumer's loop body runs for a yielded entry the iteration
\* holds its buffer, no step of any goroutine refills that buffer or puts it
\* into the pool, and the name of the entry stays the name that was yielded;
\* the iteration goes on, or releases, only from the consumer's return on.
C16_BufferStableDuringYield ==
    /\ [](\A i \in Iters :
             pc[i] = "yield" =>
                 /\ rb[i] \in BufIds /\ rb[i] \notin pool
                 /\ Cooked(cur[i], bufs[rb[i]]) = yielded[i][Len(yielded[i])])
    /\ [][\A i \in Iters :
             pc[i] = "yield" =>
                 /\ rb'[i] = rb[i]
                 /\ bufs'[rb[i]] = bufs[rb[i]]
                 /\ rb[i] \notin pool'
                 /\ dirpos'[i] = dirpos[i] /\ avail'[i] = avail[i] /\ pos'[i] = pos[i]
                 /\ pc'[i] # "yield" => (pc'[i] \in {"loop", "put"} /\ cur'[i] = cur[i])]_vars

\* one consumer looks at an entry while the other goroutine has just had its
\* own buffer refilled
C16_Witness ==
    /\ pc[1] = "yield"
    /\ pc[2] = "loop"
    /\ pos[2] = 0
    /\ avail[2] > 0
    /\ wrote[2] # <<>>
    /\ wrote[2] # wrote[1]

\* C17: once the consumer has said on a yielded entry that it wants no more,
\* the invocation yields nothing further and reads the directory no further;
\* it only runs its deferred calls, until the sequence is invoked again.
C17_StopEndsIteration ==
    /\ [](\A i \in Iters : exit[i] = "stop" => Exited(i))
    /\ [][\A i \in Iters :
             exit[i] = "stop" =>
                 \/ pc[i] = "done" /\ pc'[i] = "open"
                 \/ /\ exit'[i] = "stop"
                    /\ yielded'[i] = yielded[i]
                    /\ dirpos'[i] = dirpos[i] /\ wrote'[i] = wrote[i]
                    /\ avail'[i] = avail[i] /\ pos'[i] = pos[i]
                    /\ bufs' = bufs]_vars

\* the consumer stopped at "bar" with the record of "qz" still in the buffer
C17_Witness ==
    /\ dir[1].recs = <<RecBar, RecTight>>
    /\ exit[1] = "stop"
    /\ pc[1] = "done"
    /\ Len(yielded[1]) = 1
    /\ pos[1] = RecBar.size
    /\ avail[1] = RecBar.size + RecTight.size

\* C18: every invocation of the sequence has a descriptor of its own at the
\* start of the directory and starts with scan position and fill level 0; an
\* invocation after one that was complete, stopped early or ended otherwise
\* yields the whole sequence again when it reads the directory to its end.
C18_RestartsFromBeginning ==
    \A i \in Iters :
        /\ pc[i] = "get" => (fd[i] \in openFds /\ dirpos[i] = 0)
        /\ (pc[i] = "loop" /\ wrote[i] = <<>>) => (pos[i] = 0 /\ avail[i] = 0)
        /\ (runs[i] >= 2 /\ WellFormedDir(dir[i])) =>
              /\ IsPrefix(yielded[i], Expected(dir[i].recs))
              /\ exit[i] = "eof" => yielded[i] = Expected(dir[i].recs)
        /\ runs[i] >= 2 => prev[i] \in {"open", "eof", "read", "malformed", "stop"}
        /\ runs[i] <= 1 => prev[i] = ""

\* after an invocation the consumer stopped at "bar", the next one has yielded
\* "bar" and "qz" and found the end of the directory
C18_Witness ==
    /\ dir[1].recs = <<RecBar, RecTight>>
    /\ runs[1] = 2
    /\ prev[1] = "stop"
    /\ pc[1] = "done"
    /\ exit[1] = "eof"
    /\ Len(yielded[1]) = 2

\* C6: when the path cannot be opened the invocation is over at once with
\* nothing yielded and nothing acquired, on every invocation, and it ends as
\* the scan of an empty directory ends: no entry, no panic.
C6_OpenFailureYieldsNothing ==
    \A i \in Iters :
        /\ (~dir[i].exists /\ runs[i] >= 1 /\ pc[i] # "open") =>
              /\ pc[i] = "done"
              /\ exit[i] = "open"
              /\ yielded[i] = <<>>
              /\ ~panicked[i]
              /\ rb[i] = 0 /\ puts[i] = 0 /\ closes[i] = 0
        /\ (dir[i].exists /\ dir[i].recs = <<>> /\ pc[i] = "done") =>
              yielded[i] = <<>> /\ ~panicked[i]

C6_Witness ==
    /\ ~dir[1].exists
    /\ runs[1] = 2
    /\ pc[1] = "done"
    /\ exit[1] = "open"

\* C7: when the record at the scan position declares more bytes than are left
\* in the filled buffer, Name fails on it with (nil, false) and ReadDir ends the
\* scan at once: the record is not yielded and nothing panics.
C7_OverlongRecordEndsScan ==
    \A i \in Iters :
        (last[i].len > last[i].rem) =>
            /\ Exited(i)
            /\ exit[i] = "malformed"
            /\ ~panicked[i]
            /\ Len(yielded[i]) = last[i].nyield
            /\ pc[i] = "put" =>
                  LET nm == Name(SubSeq(bufs[rb[i]], pos[i] + 1, avail[i]))
                  IN  ~nm.ok /\ ~nm.panic

C7_Witness ==
    /\ last[1].len > last[1].rem
    /\ pc[1] = "put"
    /\ Len(yielded[1]) = 1

\* C19: when the file cannot be read, because the open fails or because a read
\* fails at the first chunk or in midstream, ReadFile returns ok = false
\* together with the most recent buffer and does not panic; after a failed
\* open the returned buffer is the supplied one, nil for nil.
C19_FailureReturnsBuffer ==
    (rf.pc \in {"close", "done"} /\ rf.why \in {"open", "read"}) =>
        /\ ~rf.panicked
        /\ ~rf.ret.ok
        /\ rf.ret.buf.arr = rf.narr
        /\ rf.ret.buf.cap = Len(rf.mem)
        /\ rf.why = "open" => rf.ret.buf = rf.supplied

\* C20: on success ReadFile returns exactly the bytes of the file, in order,
\* whatever buffer was supplied and however the reads divide the file: in the
\* loop the buffer shows the bytes read so far, also after it has grown, with
\* room for the next read, and a read of zero bytes ends the call with ok = true.
C20_SuccessReturnsFileBytes ==
    /\ rf.pc = "read" =>
        /\ Visible(rf.buffer, rf.mem) = FileBytes(rf.off)
        /\ rf.buffer.len < rf.buffer.cap
    /\ rf.why = "eof" =>
        /\ rf.ret.ok
        /\ ~rf.panicked
    /\ rf.ret.ok =>
        /\ rf.why = "eof"
        /\ rf.ret.bytes = FileBytes(rf.file.size)

C20_Witness ==
    /\ rf.pc = "done"
    /\ rf.ret.ok
    /\ rf.supplied = NilSlice
    /\ rf.file.size = 2 * initialSize + MaxOver
    /\ rf.narr >= 3
    /\ rf.ret.buf.len = rf.file.size

\* the step is a call of syscall.Getdents by iteration i: it hands out records,
\* or reports the end of the directory or an error
KernelRead(i) ==
    \/ dirpos'[i] > dirpos[i]
    \/ exit'[i] \in {"eof", "read"} /\ exit'[i] # exit[i]

\* C21: ReadDir reads from the kernel only when the scan position has reached
\* the fill level of the batch before, and the read puts the position back to
\* the start of the buffer; once a read has returned nothing or has failed the
\* invocation is on its way out, reads no more and yields no more.
C21_ReadsOnlyWhenDrained ==
    /\ [](\A i \in Iters : exit[i] \in {"eof", "read"} => pc[i] \in {"put", "close", "done"})
    /\ [][\A i \in Iters :
            /\ KernelRead(i) => (pos[i] = avail[i] /\ pos'[i] = 0)
            /\ (exit[i] \in {"eof", "read"} /\ pc'[i] # "open") =>
                  (~KernelRead(i) /\ yielded'[i] = yielded[i])]_vars

C21_Witness ==
    /\ dir[1].recs = <<RecBar, RecTight>>
    /\ pc[1] = "loop"
    /\ dirpos[1] = 2
    /\ pos[1] = 0
    /\ avail[1] = RecTight.size
    /\ wrote[1] = Flatten(<<RecTight>>)
    /\ Len(yielded[1]) = 1

\* C22: when Uint64 or HexUint64 succeeds the cursor stands on the first byte
\* from the starting position on that is no digit of the base, or at the end
\* of the slice, and the value returned is the value of the digits between the
\* old and the new cursor.
C22_SuccessStopsAtFirstNonDigit ==
    /\ (sret.op = "Uint64" /\ sret.ok) =>
        /\ spos = RunEnd(sb, sret.from, 10)
        /\ Wide(sret.num) = RunValue(sb, sret.from, spos, 10)
    /\ (sret.op = "HexUint64" /\ sret.ok) =>
        /\ spos = RunEnd(sb, sret.from, 16)
        /\ Wide(sret.num) = RunValue(sb, sret.from, spos, 16)

(***************************************************************************)
(* Claims about RawDirEntry64                                              *)
(***************************************************************************)

\* C23: Ino fails exactly on slices shorter than the offset of the inode field
\* plus its width, Len exactly on slices shorter than the offset of the
\* record-length field plus its width, Type exactly on slices shorter than the
\* offset of the type field plus 1; an accessor that fails returns the zero
\* value, and no accessor reads a byte outside the slice.
C23_AccessorsFailOnShortSlices ==
    /\ de.op = "Ino" => (~de.ok <=> Len(de.d) < OffsetofIno + SizeofIno)
    /\ de.op = "Len" => (~de.ok <=> Len(de.d) < OffsetofReclen + SizeofReclen)
    /\ de.op = "Type" => (~de.ok <=> Len(de.d) < OffsetofType + 1)
    /\ de.op \in {"Ino", "Len", "Type"} =>
        /\ ~de.ok => de.val = ZeroU64
        /\ ~de.panic
        /\ de.reads \subseteq 0..(Len(de.d) - 1)

\* Type fails on a slice that ends just before the type byte, which Len reads
C23_Witness ==
    /\ de.op = "Type"
    /\ Len(de.d) = OffsetofType
    /\ ~de.ok
    /\ de.val = ZeroU64
    /\ DirentLen(de.d).ok

\* C25: Name is total: for every slice and every value of the record-length
\* field in it, values below the offset of the name included, Name returns a
\* span inside the slice with true, or nil with false, and does not index or
\* slice outside the slice.
C25_NameIsTotal ==
    de.op = "Name" =>
        /\ ~de.panic
        /\ de.ok => (0 <= de.lo /\ de.lo <= de.hi /\ de.hi <= Len(de.d))
        /\ ~de.ok => (de.lo = 0 /\ de.hi = 0)

\* the contents returned lie in the backing array of the supplied buffer
SameBacking == ~rf.supplied.nil /\ rf.ret.buf.arr = rf.supplied.arr

\* C24, as stated: the contents ReadFile returns lie in the supplied buffer
\* whenever its capacity was enough to hold the contents of the file, and in a
\* new backing buffer only otherwise.
C24_KeptWheneverSufficient ==
    (rf.pc = "done" /\ rf.ret.ok) => (SameBacking <=> rf.supplied.cap >= rf.file.size)

\* C24, amended: the contents ReadFile returns lie in the supplied buffer
\* exactly when its capacity is at least the initial size of 512 and greater
\* than the size of the file; in every other case they lie in a new backing
\* buffer.
C24_KeptWhenRoomToSpare ==
    (rf.pc = "done" /\ rf.ret.ok) =>
        (SameBacking <=>
            (rf.supplied.cap >= initialSize /\ rf.supplied.cap > rf.file.size))

\* a file larger than the initial size is returned in the supplied buffer,
\* which is larger still
C24_Witness ==
    /\ rf.pc = "done"
    /\ rf.ret.ok
    /\ rf.supplied.cap > rf.file.size
    /\ rf.file.size > initialSize
    /\ rf.ret.buf.len = rf.file.size
    /\ SameBacking

\* what the loop body makes of the record at the scan position of iteration i
NextDecode(i) == DecodeStep(bufs[rb[i]], pos[i], avail[i])

\* the declared length of the record at the scan position of iteration i
NextLen(i) == DirentLen(SubSeq(bufs[rb[i]], pos[i] + 1, avail[i]))

\* the call is between the declaration of its locals and its end
HasLocals(i) == pc[i] \in {"loop", "yield", "put", "close"}

\* C26: in every state of an iteration the scan position is at least 0 and at
\* most the fill level, which is at most the 8192 bytes of the buffer, and
\* every record the loop processes between two kernel reads, whether it is
\* yielded or passed over, moves the scan position on by its declared length,
\* which is more than nothing.
C26_PositionAdvancesWithinFill ==
    \A i \in Iters :
        /\ HasLocals(i) =>
              (0 <= pos[i] /\ pos[i] <= avail[i] /\ avail[i] <= readDirBufferSize)
        /\ (InLoop(i) /\ pos[i] < avail[i] /\ NextDecode(i).kind \in {"continue", "yield"}) =>
              /\ NextLen(i).ok
              /\ NextDecode(i).pos = pos[i] + IntOf(NextLen(i).val)
              /\ NextDecode(i).pos > pos[i]

====
